---- MODULE Spec2Model ----
(***************************************************************************)
(* Model of detection/graph_analysis.py: the transaction-graph analyzer.   *)
(*                                                                         *)
(* Account ids are modelled as integers; their integer order stands for    *)
(* the order of the ids' string forms (str(node)), which is the order the  *)
(* program sorts and compares by.  A DataFrame is modelled as a bag of     *)
(* rows (row |-> number of identical rows); transaction_id is opaque and   *)
(* is left out.  Scores are kept in hundredths (52.86 is 5286).            *)
(***************************************************************************)
EXTENDS Integers, Sequences, FiniteSets, TLC

(***************************************************************************)
(* Bounds of the model                                                     *)
(***************************************************************************)
MaxEdits == 1
MaxExtraRows == 2
MaxChords == 1
MaxShellRows == 4

(***************************************************************************)
(* Program constants                                                       *)
(***************************************************************************)
DefaultMaxRings == 500
MinCycleLen == 3
MaxCycleLen == 5

None == "None"

VARIABLES
    entry,                \* which function the caller invoked
    df,                   \* the cleaned DataFrame (bag of rows)
    max_runtime_seconds,  \* argument of the entry function
    max_rings,            \* argument of _detect_cycles_3_to_5
    succOrder,            \* iteration order of each successors[node] set
    G,                    \* the nx.DiGraph built by _build_graph
    deadline,             \* deadline of analyze_transactions / of a detector, or None
    cycle_deadline,       \* deadline inside _detect_cycles_3_to_5, or None
    expired,              \* the deadlines perf_counter() has reached
    fraud_rings,
    node_to_ring,
    ring_counter,
    seen_rings,
    start_idx,            \* position of `start` in nodes_sorted
    stack,
    stopped_by,           \* which exit of _detect_cycles_3_to_5 was taken
    fan_in_accounts,
    fan_out_accounts,
    shell_accounts,
    nodes_payload,        \* the node dicts, in G.nodes() order
    scored_accounts,      \* (item, is_high, pattern_count, total_tx), item a position
    suspicious_accounts,  \* positions in nodes_payload (references to its dicts)
    dynamic_threshold,    \* in ten-thousandths
    taken,                \* the flagging branches of analyze_transactions taken so far
    report,               \* the dict analyze_transactions returns
    pc

vars == <<entry, df, max_runtime_seconds, max_rings, succOrder, G, deadline,
          cycle_deadline, expired, fraud_rings, node_to_ring, ring_counter,
          seen_rings, start_idx, stack, stopped_by, fan_in_accounts,
          fan_out_accounts, shell_accounts, nodes_payload, scored_accounts,
          suspicious_accounts, dynamic_threshold, taken, report, pc>>

(***************************************************************************)
(* Generic helpers                                                         *)
(***************************************************************************)
Range(s) == {s[i] : i \in 1..Len(s)}

Min(a, b) == IF a <= b THEN a ELSE b
Max(a, b) == IF a >= b THEN a ELSE b

RECURSIVE SumSeq(_)
SumSeq(s) == IF s = <<>> THEN 0 ELSE Head(s) + SumSeq(Tail(s))

RECURSIVE SumFn(_)
SumFn(f) ==
    IF DOMAIN f = {} THEN 0
    ELSE LET x == CHOOSE x \in DOMAIN f : TRUE
         IN f[x] + SumFn([y \in DOMAIN f \ {x} |-> f[y]])

\* sorted(S) for a set of accounts: ascending
SortSet(S) ==
    [k \in 1..Cardinality(S) |->
        CHOOSE x \in S : Cardinality({y \in S : y < x}) = k - 1]

\* lexicographic order on pairs
PairLess(e, f) == e[1] < f[1] \/ (e[1] = f[1] /\ e[2] < f[2])

SortPairs(S) ==
    [k \in 1..Cardinality(S) |->
        CHOOSE x \in S : Cardinality({y \in S : PairLess(y, x)}) = k - 1]

RECURSIVE Perms(_)
Perms(S) ==
    IF S = {} THEN {<<>>}
    ELSE UNION {{<<x>> \o p : p \in Perms(S \ {x})} : x \in S}

RECURSIVE SubsetsUpTo(_, _)
SubsetsUpTo(S, k) ==
    IF k = 0 THEN {{}}
    ELSE LET P == SubsetsUpTo(S, k - 1)
         IN P \cup {A \cup {x} : A \in P, x \in S}

(***************************************************************************)
(* _time_up                                                                *)
(***************************************************************************)
time_up(dl) == dl # None /\ dl \in expired

(***************************************************************************)
(* _build_graph                                                            *)
(***************************************************************************)
Row(s, r, a, t) == [sender_id |-> s, receiver_id |-> r, amount |-> a, timestamp |-> t]

\* df.groupby(["sender_id", "receiver_id"]): the group keys, sorted
GroupKeys(d) == {<<row.sender_id, row.receiver_id>> : row \in DOMAIN d}

GroupRows(d, e) ==
    {row \in DOMAIN d : row.sender_id = e[1] /\ row.receiver_id = e[2]}

\* G.add_edge(u, v) on each group in turn: a node enters G.nodes() the first
\* time it is an endpoint, the sender before the receiver
AddEdges(edges) ==
    LET endpoints == [i \in 1..(2 * Len(edges)) |-> edges[(i + 1) \div 2][2 - (i % 2)]]
        firsts == {i \in DOMAIN endpoints :
                      \A j \in 1..(i - 1) : endpoints[j] # endpoints[i]}
    IN [k \in 1..Cardinality(firsts) |->
           endpoints[CHOOSE i \in firsts : Cardinality({j \in firsts : j < i}) = k - 1]]

build_graph(d) ==
    LET keys == GroupKeys(d)
    IN [nodes |-> AddEdges(SortPairs(keys)),
        edges |-> keys,
        count |-> [e \in keys |-> SumFn([row \in GroupRows(d, e) |-> d[row]])],
        total_amount |->
            [e \in keys |-> SumFn([row \in GroupRows(d, e) |-> d[row] * row.amount])]]

NodeSet(Gr) == Range(Gr.nodes)
Successors(Gr, n) == {e[2] : e \in {f \in Gr.edges : f[1] = n}}
Predecessors(Gr, n) == {e[1] : e \in {f \in Gr.edges : f[2] = n}}
OutDegree(Gr, n) == Cardinality(Successors(Gr, n))
InDegree(Gr, n) == Cardinality(Predecessors(Gr, n))

\* nx.density(G.subgraph(nodes)) = m / (n (n - 1)), m counting self-loops
SubgraphEdges(Gr, S) == {e \in Gr.edges : e[1] \in S /\ e[2] \in S}

(***************************************************************************)
(* _detect_cycles_3_to_5                                                   *)
(***************************************************************************)
DigitStr == <<"0", "1", "2", "3", "4", "5", "6", "7", "8", "9">>

RECURSIVE Decimal(_)
Decimal(n) ==
    IF n < 10 THEN DigitStr[n + 1]
    ELSE Decimal(n \div 10) \o DigitStr[(n % 10) + 1]

\* f"RING_{ring_counter:03d}"
RingId(n) ==
    "RING_" \o (IF n < 10 THEN "00" ELSE IF n < 100 THEN "0" ELSE "") \o Decimal(n)

\* round(min(100.0, 50.0 + 30.0 * density + 20.0 * (len / 5.0)), 2), in hundredths;
\* 3000 m / (n (n - 1)) is a whole number for n in 3..5
RiskScore(Gr, cycle_nodes) ==
    LET n == Len(cycle_nodes)
        m == Cardinality(SubgraphEdges(Gr, Range(cycle_nodes)))
        density3000 == IF n > 1 THEN (3000 * m) \div (n * (n - 1)) ELSE 0
    IN Min(10000, 5000 + density3000 + 400 * n)

\* G.get_edge_data(src, dst, default={}).get("count", 1)
EdgeCount(Gr, src, dst) ==
    IF <<src, dst>> \in Gr.edges THEN Gr.count[<<src, dst>>] ELSE 1

\* node_to_ring.setdefault(node, ring_id) for each node of member_list
SetDefaultAll(m, S, ring_id) ==
    [n \in DOMAIN m \cup S |-> IF n \in DOMAIN m THEN m[n] ELSE ring_id]

\* add_cycle without the first-claim test of lines 112-113
add_cycle_no_first_claim(cs, Gr, cycle_nodes) ==
    LET n == Len(cycle_nodes)
        cycle_edges ==
            [i \in 1..n |-> EdgeCount(Gr, cycle_nodes[i], cycle_nodes[(i % n) + 1])]
        members == Range(cycle_nodes)
        ring_id == RingId(cs.ring_counter)
        member_list == SortSet(members)
        ring == [ring_id |-> ring_id,
                 member_count |-> Len(member_list),
                 member_accounts |-> member_list,
                 risk_score |-> RiskScore(Gr, cycle_nodes),
                 pattern_type |-> "cycle"]
    IN IF SumSeq(cycle_edges) < n THEN cs
       ELSE IF members \in cs.seen_rings THEN cs
       ELSE [cs EXCEPT !.seen_rings = @ \cup {members},
                       !.ring_counter = @ + 1,
                       !.fraud_rings = Append(@, ring),
                       !.node_to_ring = SetDefaultAll(@, members, ring_id)]

\* add_cycle storing the path as found instead of sorted(cycle_nodes)
add_cycle_unsorted(cs, Gr, cycle_nodes) ==
    IF \E i \in 1..Len(cycle_nodes) : cycle_nodes[i] \in DOMAIN cs.node_to_ring
    THEN cs
    ELSE
      LET n == Len(cycle_nodes)
          cycle_edges ==
              [i \in 1..n |-> EdgeCount(Gr, cycle_nodes[i], cycle_nodes[(i % n) + 1])]
          members == Range(cycle_nodes)
          ring_id == RingId(cs.ring_counter)
          ring == [ring_id |-> ring_id,
                   member_count |-> Len(cycle_nodes),
                   member_accounts |-> cycle_nodes,
                   risk_score |-> RiskScore(Gr, cycle_nodes),
                   pattern_type |-> "cycle"]
      IN IF SumSeq(cycle_edges) < n THEN cs
         ELSE IF members \in cs.seen_rings THEN cs
         ELSE [cs EXCEPT !.seen_rings = @ \cup {members},
                         !.ring_counter = @ + 1,
                         !.fraud_rings = Append(@, ring),
                         !.node_to_ring = SetDefaultAll(@, members, ring_id)]

\* add_cycle that forgets `ring_counter += 1`
add_cycle_no_increment(cs, Gr, cycle_nodes) ==
    IF \E i \in 1..Len(cycle_nodes) : cycle_nodes[i] \in DOMAIN cs.node_to_ring
    THEN cs
    ELSE
      LET n == Len(cycle_nodes)
          cycle_edges ==
              [i \in 1..n |-> EdgeCount(Gr, cycle_nodes[i], cycle_nodes[(i % n) + 1])]
          members == Range(cycle_nodes)
          ring_id == RingId(cs.ring_counter)
          member_list == SortSet(members)
          ring == [ring_id |-> ring_id,
                   member_count |-> Len(member_list),
                   member_accounts |-> member_list,
                   risk_score |-> RiskScore(Gr, cycle_nodes),
                   pattern_type |-> "cycle"]
      IN IF SumSeq(cycle_edges) < n THEN cs
         ELSE IF members \in cs.seen_rings THEN cs
         ELSE [cs EXCEPT !.seen_rings = @ \cup {members},
                         !.fraud_rings = Append(@, ring),
                         !.node_to_ring = SetDefaultAll(@, members, ring_id)]

\* add_cycle with a support guard that asks for more rows than edges
add_cycle_strict_support(cs, Gr, cycle_nodes) ==
    IF \E i \in 1..Len(cycle_nodes) : cycle_nodes[i] \in DOMAIN cs.node_to_ring
    THEN cs
    ELSE
      LET n == Len(cycle_nodes)
          cycle_edges ==
              [i \in 1..n |-> EdgeCount(Gr, cycle_nodes[i], cycle_nodes[(i % n) + 1])]
          members == Range(cycle_nodes)
          ring_id == RingId(cs.ring_counter)
          member_list == SortSet(members)
          ring == [ring_id |-> ring_id,
                   member_count |-> Len(member_list),
                   member_accounts |-> member_list,
                   risk_score |-> RiskScore(Gr, cycle_nodes),
                   pattern_type |-> "cycle"]
      IN IF SumSeq(cycle_edges) <= n THEN cs
         ELSE IF members \in cs.seen_rings THEN cs
         ELSE [cs EXCEPT !.seen_rings = @ \cup {members},
                         !.ring_counter = @ + 1,
                         !.fraud_rings = Append(@, ring),
                         !.node_to_ring = SetDefaultAll(@, members, ring_id)]

\* add_cycle (lines 107-155); cs is the state of one call: the closure
\* variables of add_cycle and the loops' locals
add_cycle(cs, Gr, cycle_nodes) ==
    IF \E i \in 1..Len(cycle_nodes) : cycle_nodes[i] \in DOMAIN cs.node_to_ring
    THEN cs
    ELSE
      LET n == Len(cycle_nodes)
          cycle_edges ==
              [i \in 1..n |-> EdgeCount(Gr, cycle_nodes[i], cycle_nodes[(i % n) + 1])]
          members == Range(cycle_nodes)
          ring_id == RingId(cs.ring_counter)
          member_list == SortSet(members)
          ring == [ring_id |-> ring_id,
                   member_count |-> Len(member_list),
                   member_accounts |-> member_list,
                   risk_score |-> RiskScore(Gr, cycle_nodes),
                   pattern_type |-> "cycle"]
      IN IF SumSeq(cycle_edges) < n THEN cs
         ELSE IF members \in cs.seen_rings THEN cs
         ELSE [cs EXCEPT !.seen_rings = @ \cup {members},
                         !.ring_counter = @ + 1,
                         !.fraud_rings = Append(@, ring),
                         !.node_to_ring = SetDefaultAll(@, members, ring_id)]

nodes_sorted(Gr) == SortSet(NodeSet(Gr))

\* the body of `while stack:` after the deadline check (lines 169-185)
Visit(cs, Gr, order, mr) ==
    LET top == cs.stack[Len(cs.stack)]
        rest == SubSeq(cs.stack, 1, Len(cs.stack) - 1)
        start == nodes_sorted(Gr)[cs.start_idx]
        current == top.current
        path == top.path
        visited == top.visited
        path_len == Len(path)
        closes == /\ MinCycleLen <= path_len
                  /\ path_len <= MaxCycleLen
                  /\ start \in Successors(Gr, current)
        c1 == IF closes THEN add_cycle(cs, Gr, path) ELSE cs
        Keep(nxt) == nxt \notin visited /\ ~(nxt < start)
        todo == SelectSeq(order[current], Keep)
        pushes == [i \in 1..Len(todo) |->
                      [current |-> todo[i],
                       path |-> Append(path, todo[i]),
                       visited |-> visited \cup {todo[i]}]]
    IN IF closes /\ Len(c1.fraud_rings) >= mr
       THEN [c1 EXCEPT !.stack = rest, !.pc = "cycles_return", !.stopped_by = "cap"]
       ELSE IF path_len = MaxCycleLen
       THEN [c1 EXCEPT !.stack = rest]
       ELSE [c1 EXCEPT !.stack = rest \o pushes]

\* one loop test of the detector; `up` is what _time_up(deadline) answers
CycleStep(cs, Gr, order, mr, up) ==
    IF cs.pc = "cycles_for"
    THEN IF cs.start_idx > Len(Gr.nodes)
         THEN [cs EXCEPT !.pc = "cycles_return", !.stopped_by = "exhausted"]
         ELSE IF up
         THEN [cs EXCEPT !.pc = "cycles_return", !.stopped_by = "deadline"]
         ELSE IF Len(cs.fraud_rings) >= mr
         THEN [cs EXCEPT !.pc = "cycles_return", !.stopped_by = "cap"]
         ELSE LET start == nodes_sorted(Gr)[cs.start_idx]
              IN [cs EXCEPT !.pc = "cycles_while",
                            !.stack = <<[current |-> start,
                                         path |-> <<start>>,
                                         visited |-> {start}]>>]
    ELSE IF cs.stack = <<>>
         THEN [cs EXCEPT !.pc = "cycles_for", !.start_idx = @ + 1]
         ELSE IF up
         THEN [cs EXCEPT !.pc = "cycles_return", !.stopped_by = "deadline"]
         ELSE IF Len(cs.fraud_rings) >= mr
         THEN [cs EXCEPT !.pc = "cycles_return", !.stopped_by = "cap"]
         ELSE Visit(cs, Gr, order, mr)

CycleInit ==
    [fraud_rings |-> <<>>,
     node_to_ring |-> <<>>,
     ring_counter |-> 1,
     seen_rings |-> {},
     start_idx |-> 1,
     stack |-> <<>>,
     stopped_by |-> "none",
     pc |-> "cycles_for"]

\* a whole call during which no deadline expires
RECURSIVE RunCycles(_, _, _, _)
RunCycles(cs, Gr, order, mr) ==
    IF cs.pc = "cycles_return" THEN cs
    ELSE RunCycles(CycleStep(cs, Gr, order, mr, FALSE), Gr, order, mr)

detect_cycles_3_to_5(Gr, order, mr) == RunCycles(CycleInit, Gr, order, mr)

(***************************************************************************)
(* _detect_smurfing_fan_in, _detect_smurfing_fan_out                       *)
(***************************************************************************)
WindowHours == 72
MinCounterparties == 10

\* timedelta(hours=window_hours), in seconds
Window(window_hours) == window_hours * 3600

Receivers(d) == {row.receiver_id : row \in DOMAIN d}
Senders(d) == {row.sender_id : row \in DOMAIN d}

\* group[["sender_id", "timestamp"]].drop_duplicates().sort_values("timestamp")
\* as (timestamp, counterparty) pairs; rows of one timestamp are taken in
\* counterparty order
FanInRows(d, receiver) ==
    SortPairs({<<row.timestamp, row.sender_id>> :
                   row \in {r \in DOMAIN d : r.receiver_id = receiver}})

FanOutRows(d, sender) ==
    SortPairs({<<row.timestamp, row.receiver_id>> :
                   row \in {r \in DOMAIN d : r.sender_id = sender}})

\* the window test with `>=`: a row exactly window_hours after the first row
\* of the window already pushes that row out
RECURSIVE AdvanceExclusive(_, _, _, _)
AdvanceExclusive(rows, start, end, window) ==
    IF rows[end][1] - rows[start][1] >= window
    THEN AdvanceExclusive(rows, start + 1, end, window)
    ELSE start

\* while times[end] - times[start] > window: start += 1
RECURSIVE Advance(_, _, _, _)
Advance(rows, start, end, window) ==
    IF rows[end][1] - rows[start][1] > window
    THEN Advance(rows, start + 1, end, window)
    ELSE start

\* for end in range(len(times)): ... (lines 214-221)
RECURSIVE Sweep(_, _, _, _, _)
Sweep(rows, start, end, window, min_count) ==
    IF end > Len(rows) THEN FALSE
    ELSE LET s == Advance(rows, start, end, window)
             window_counterparties == {rows[i][2] : i \in s..end}
         IN IF Cardinality(window_counterparties) >= min_count
            THEN TRUE
            ELSE Sweep(rows, s, end + 1, window, min_count)

\* the body of the loop over the groups (lines 206-221)
GroupFlagged(rows, window_hours, min_count) ==
    IF Len(rows) < min_count THEN FALSE
    ELSE Sweep(rows, 1, 1, Window(window_hours), min_count)

\* the receivers flagged when the loop is left after `groups` groups
\* (groupby yields the groups in ascending key order)
detect_smurfing_fan_in(d, window_hours, min_senders, groups) ==
    LET keys == SortSet(Receivers(d))
    IN {keys[i] : i \in {k \in 1..groups :
                            GroupFlagged(FanInRows(d, keys[k]), window_hours, min_senders)}}

detect_smurfing_fan_out(d, window_hours, min_receivers, groups) ==
    LET keys == SortSet(Senders(d))
    IN {keys[i] : i \in {k \in 1..groups :
                            GroupFlagged(FanOutRows(d, keys[k]), window_hours, min_receivers)}}

(***************************************************************************)
(* tx_count, incoming_amounts, outgoing_amounts                            *)
(***************************************************************************)
\* df.groupby("sender_id").size().add(df.groupby("receiver_id").size(), fill_value=0)
TxCount(d, node) ==
    SumFn([row \in {r \in DOMAIN d : r.sender_id = node} |-> d[row]])
    + SumFn([row \in {r \in DOMAIN d : r.receiver_id = node} |-> d[row]])

IncomingAmount(d, node) ==
    SumFn([row \in {r \in DOMAIN d : r.receiver_id = node} |-> d[row] * row.amount])

OutgoingAmount(d, node) ==
    SumFn([row \in {r \in DOMAIN d : r.sender_id = node} |-> d[row] * row.amount])

(***************************************************************************)
(* _detect_layered_shell                                                   *)
(***************************************************************************)
IsShell(Gr, d, node) ==
    LET total_tx == TxCount(d, node)
        preds_dist1 == Predecessors(Gr, node)
        succs_dist1 == Successors(Gr, node)
        preds_dist2 == UNION {Predecessors(Gr, p) : p \in preds_dist1}
        succs_dist2 == UNION {Successors(Gr, s) : s \in succs_dist1}
        has_3hop == \/ (preds_dist1 # {} /\ succs_dist2 # {})
                    \/ (preds_dist2 # {} /\ succs_dist1 # {})
    IN /\ 2 <= total_tx /\ total_tx <= 3
       /\ ~(InDegree(Gr, node) < 2 \/ OutDegree(Gr, node) < 2)
       /\ has_3hop

\* the shell accounts found when the loop over G.nodes() is left after `count` nodes
detect_layered_shell(Gr, d, count) ==
    {Gr.nodes[i] : i \in {k \in 1..count : IsShell(Gr, d, Gr.nodes[k])}}

(***************************************************************************)
(* _is_likely_legitimate                                                   *)
(***************************************************************************)
is_likely_legitimate(node, Gr, d) ==
    LET total_tx == TxCount(d, node)
        total_in == IncomingAmount(d, node)
        total_out == OutgoingAmount(d, node)
        total_flow == total_in + total_out
        \* ratio > 0.85, with ratio = min(in, out) / max(in, out)
        ratio_high == 100 * Min(total_in, total_out) > 85 * Max(total_in, total_out)
        degree == InDegree(Gr, node) + OutDegree(Gr, node)
    IN IF total_tx > 200 THEN TRUE
       ELSE IF total_flow <= 0 THEN FALSE
       ELSE IF total_tx > 80 /\ ratio_high /\ degree > 15 THEN TRUE
       \* avg_amount = total_flow / total_tx > 50000
       ELSE IF total_flow > 50000 * total_tx /\ total_tx > 30 THEN TRUE
       ELSE FALSE

(***************************************************************************)
(* Scoring (analyze_transactions, lines 399-474)                           *)
(*                                                                         *)
(* A score is summed in millionths and rounded to hundredths, as           *)
(* round(score, 2) does; np.log1p is a table.                              *)
(***************************************************************************)
\* round(1000000 * ln(1 + n)) for n = 1 .. 200
Log1pMicro ==
    <<693147, 1098612, 1386294, 1609438, 1791759, 1945910, 2079442, 2197225,
      2302585, 2397895, 2484907, 2564949, 2639057, 2708050, 2772589, 2833213,
      2890372, 2944439, 2995732, 3044522, 3091042, 3135494, 3178054, 3218876,
      3258097, 3295837, 3332205, 3367296, 3401197, 3433987, 3465736, 3496508,
      3526361, 3555348, 3583519, 3610918, 3637586, 3663562, 3688879, 3713572,
      3737670, 3761200, 3784190, 3806662, 3828641, 3850148, 3871201, 3891820,
      3912023, 3931826, 3951244, 3970292, 3988984, 4007333, 4025352, 4043051,
      4060443, 4077537, 4094345, 4110874, 4127134, 4143135, 4158883, 4174387,
      4189655, 4204693, 4219508, 4234107, 4248495, 4262680, 4276666, 4290459,
      4304065, 4317488, 4330733, 4343805, 4356709, 4369448, 4382027, 4394449,
      4406719, 4418841, 4430817, 4442651, 4454347, 4465908, 4477337, 4488636,
      4499810, 4510860, 4521789, 4532599, 4543295, 4553877, 4564348, 4574711,
      4584967, 4595120, 4605170, 4615121, 4624973, 4634729, 4644391, 4653960,
      4663439, 4672829, 4682131, 4691348, 4700480, 4709530, 4718499, 4727388,
      4736198, 4744932, 4753590, 4762174, 4770685, 4779123, 4787492, 4795791,
      4804021, 4812184, 4820282, 4828314, 4836282, 4844187, 4852030, 4859812,
      4867534, 4875197, 4882802, 4890349, 4897840, 4905275, 4912655, 4919981,
      4927254, 4934474, 4941642, 4948760, 4955827, 4962845, 4969813, 4976734,
      4983607, 4990433, 4997212, 5003946, 5010635, 5017280, 5023881, 5030438,
      5036953, 5043425, 5049856, 5056246, 5062595, 5068904, 5075174, 5081404,
      5087596, 5093750, 5099866, 5105945, 5111988, 5117994, 5123964, 5129899,
      5135798, 5141664, 5147494, 5153292, 5159055, 5164786, 5170484, 5176150,
      5181784, 5187386, 5192957, 5198497, 5204007, 5209486, 5214936, 5220356,
      5225747, 5231109, 5236442, 5241747, 5247024, 5252273, 5257495, 5262690,
      5267858, 5273000, 5278115, 5283204, 5288267, 5293305, 5298317, 5303305>>

log1p(n) == Log1pMicro[n]

\* round half up from millionths to hundredths
RoundToCents(micro) == (micro + 5000) \div 10000

\* floor(10^digits * num / den), by long division
RECURSIVE Scaled(_, _, _)
Scaled(num, den, digits) ==
    IF digits = 0 THEN num \div den
    ELSE (num \div den) * 10^digits + Scaled(10 * (num % den), den, digits - 1)

\* 8.0 * abs(total_in - total_out) / total_flow, in millionths
Imbalance8(total_in, total_out) ==
    LET diff == IF total_in >= total_out THEN total_in - total_out
                ELSE total_out - total_in
    IN Scaled(8 * diff, total_in + total_out, 6)

CycleTag(cycle_len) == "cycle_length_" \o Decimal(cycle_len)

\* a pattern test that forgets `not skip_patterns`
TaggedDespiteFilter(skip_patterns, hit) == hit

\* `if not skip_patterns and node in <the detector's result>`
Tagged(skip_patterns, hit) == ~skip_patterns /\ hit

\* ring_length_map.get(node_to_ring[node], 0)
RingLength(rings, id) ==
    IF \E i \in 1..Len(rings) : rings[i].ring_id = id
    THEN (CHOOSE r \in Range(rings) : r.ring_id = id).member_count
    ELSE 0

\* the tags appended at lines 416, 420, 424, 428, in that order
Patterns(in_ring, cycle_len, is_fan_in, is_fan_out, is_shell) ==
    (IF in_ring THEN <<CycleTag(cycle_len)>> ELSE <<>>)
    \o (IF is_fan_in THEN <<"smurfing_fan_in">> ELSE <<>>)
    \o (IF is_fan_out THEN <<"smurfing_fan_out">> ELSE <<>>)
    \o (IF is_shell THEN <<"layered_shell">> ELSE <<>>)

\* lines 417, 421, 425, 429, in millionths
PatternScore(in_ring, cycle_len, is_fan_in, is_fan_out, is_shell) ==
    (IF in_ring THEN (IF cycle_len = 3 THEN 50000000 ELSE 46000000) ELSE 0)
    + (IF is_fan_in THEN 20000000 ELSE 0)
    + (IF is_fan_out THEN 20000000 ELSE 0)
    + (IF is_shell THEN 16000000 ELSE 0)

\* lines 432-440, in millionths
Behavioural(skip_patterns, degree, total_tx, total_in, total_out) ==
    IF ~skip_patterns /\ degree > 0
    THEN Min(10000000, (12 * log1p(degree)) \div 10)
         + Min(8000000, (14 * log1p(total_tx)) \div 10)
         + (IF total_in + total_out > 0 THEN Imbalance8(total_in, total_out) ELSE 0)
    ELSE 0

\* lines 442-446, in millionths
MultiPatternBonus(pattern_count) ==
    (IF pattern_count >= 2 THEN 6000000 ELSE 0)
    + (IF pattern_count >= 3 THEN 6000000 ELSE 0)

\* lines 448-452: score *= 0.35 for a legitimate profile, then
\* min(100.0, round(score, 2)), in hundredths
FinalScore(skip_patterns, raw) ==
    Min(10000, RoundToCents(IF skip_patterns
                            THEN (raw \div 100) * 35 + ((raw % 100) * 35) \div 100
                            ELSE raw))

\* lines 454-460
HighConfidence(has_cycle, pattern_count, total_tx, score) ==
    \/ (has_cycle /\ total_tx >= 2 /\ score >= 4500)
    \/ (pattern_count >= 2 /\ total_tx >= 4 /\ score >= 5200)
    \/ (pattern_count >= 3 /\ total_tx >= 3 /\ score >= 5000)
    \/ (pattern_count = 1 /\ total_tx >= 8 /\ score >= 6800)

\* lines 462-474: node_payload and the other three components of the
\* scored_accounts tuple
Scored(node, score, patterns, ring_id, in_deg, out_deg, total_in, total_out, has_cycle, total_tx) ==
    [node_payload |->
        [account_id |-> node,
         suspicion_score |-> score,
         patterns |-> patterns,
         ring_id |-> ring_id,
         in_degree |-> in_deg,
         out_degree |-> out_deg,
         total_in_amount |-> total_in,
         total_out_amount |-> total_out,
         is_suspicious |-> FALSE],
     is_high |-> HighConfidence(has_cycle, Len(patterns), total_tx, score),
     pattern_count |-> Len(patterns),
     total_tx |-> total_tx]

\* the score of a node from its pattern hits and its statistics
Score(skip_patterns, in_ring, cycle_len, is_fan_in, is_fan_out, is_shell, pattern_count, degree, total_tx, total_in, total_out) ==
    FinalScore(skip_patterns,
               PatternScore(in_ring, cycle_len, is_fan_in, is_fan_out, is_shell)
               + Behavioural(skip_patterns, degree, total_tx, total_in, total_out)
               + MultiPatternBonus(pattern_count))

\* lines 414-474 once skip_patterns and the statistics of the node are known
ScoreWith(node, skip_patterns, in_ring, cycle_len, is_fan_in, is_fan_out, is_shell, ring_id, in_deg, out_deg, total_tx, total_in, total_out) ==
    Scored(node,
           Score(skip_patterns, in_ring, cycle_len, is_fan_in, is_fan_out, is_shell,
                 Len(Patterns(in_ring, cycle_len, is_fan_in, is_fan_out, is_shell)),
                 in_deg + out_deg, total_tx, total_in, total_out),
           Patterns(in_ring, cycle_len, is_fan_in, is_fan_out, is_shell),
           ring_id, in_deg, out_deg, total_in, total_out, in_ring, total_tx)

\* lines 414-415: the ring test and the ring's length
ScoreInRing(node, skip_patterns, in_ring, rings, n2r, is_fan_in, is_fan_out, is_shell, in_deg, out_deg, total_tx, total_in, total_out) ==
    ScoreWith(node, skip_patterns, in_ring,
              IF in_ring THEN RingLength(rings, n2r[node]) ELSE 0,
              is_fan_in, is_fan_out, is_shell,
              IF node \in DOMAIN n2r THEN n2r[node] ELSE None,
              in_deg, out_deg, total_tx, total_in, total_out)

\* lines 410-429: skip_patterns guards every pattern test
ScoreFiltered(node, skip_patterns, rings, n2r, fan_in, fan_out, shell, in_deg, out_deg, total_tx, total_in, total_out) ==
    ScoreInRing(node, skip_patterns,
                Tagged(skip_patterns, node \in DOMAIN n2r), rings, n2r,
                Tagged(skip_patterns, node \in fan_in),
                Tagged(skip_patterns, node \in fan_out),
                Tagged(skip_patterns, node \in shell),
                in_deg, out_deg, total_tx, total_in, total_out)

\* one turn of the loop over G.nodes(): the node's payload and the other three
\* components of its scored_accounts tuple
ScoreNode(node, Gr, d, rings, n2r, fan_in, fan_out, shell) ==
    ScoreFiltered(node, is_likely_legitimate(node, Gr, d),
                  rings, n2r, fan_in, fan_out, shell,
                  InDegree(Gr, node), OutDegree(Gr, node),
                  TxCount(d, node), IncomingAmount(d, node), OutgoingAmount(d, node))

(***************************************************************************)
(* Thresholding (analyze_transactions, lines 476-554)                      *)
(*                                                                         *)
(* nodes_payload is the list of the node dicts; scored_accounts and        *)
(* suspicious_accounts hold references to those same dicts, modelled as    *)
(* positions in nodes_payload.  A threshold is kept in ten-thousandths, so *)
(* that an interpolated percentile of hundredths is a whole number.        *)
(***************************************************************************)
\* the values of s in ascending order
SortAsc(s) ==
    LET Before(i, j) == s[i] < s[j] \/ (s[i] = s[j] /\ i < j)
    IN [k \in 1..Len(s) |->
           s[CHOOSE i \in 1..Len(s) :
                 Cardinality({j \in 1..Len(s) : Before(j, i)}) = k - 1]]

\* 100 * np.percentile(scores, q): linear interpolation between the two
\* closest ranks
Percentile(scores, q) ==
    LET a == SortAsc(scores)
        n == Len(a)
        pos == q * (n - 1)
        lo == (pos \div 100) + 1
        hi == Min(lo + 1, n)
        frac == pos % 100
    IN 100 * a[lo] + frac * (a[hi] - a[lo])

\* a sort by score that puts, among equal scores, the smaller account id first
SortedByScoreThenId(items, payload) ==
    LET Before(i, j) ==
            \/ payload[items[i]].suspicion_score > payload[items[j]].suspicion_score
            \/ /\ payload[items[i]].suspicion_score = payload[items[j]].suspicion_score
               /\ payload[items[i]].account_id < payload[items[j]].account_id
    IN [k \in 1..Len(items) |->
           items[CHOOSE i \in 1..Len(items) :
                     Cardinality({j \in 1..Len(items) : Before(j, i)}) = k - 1]]

\* sorted(items, key=lambda x: x["suspicion_score"], reverse=True) is stable:
\* items of equal score keep the order they had
SortedByScore(items, payload) ==
    LET Before(i, j) ==
            \/ payload[items[i]].suspicion_score > payload[items[j]].suspicion_score
            \/ /\ payload[items[i]].suspicion_score = payload[items[j]].suspicion_score
               /\ i < j
    IN [k \in 1..Len(items) |->
           items[CHOOSE i \in 1..Len(items) :
                     Cardinality({j \in 1..Len(items) : Before(j, i)}) = k - 1]]

\* s[:k]
Take(s, k) == [i \in 1..Min(k, Len(s)) |-> s[i]]

Indices(s) == [i \in 1..Len(s) |-> i]

\* the assignments to item["is_suspicious"] left out
WithFlagsUnchanged(payload, flagged) == payload

\* item["is_suspicious"] = ... for every item of nodes_payload
WithFlags(payload, flagged) ==
    [i \in 1..Len(payload) |-> [payload[i] EXCEPT !.is_suspicious = i \in flagged]]

\* lines 478-493: some account is high-confidence
ThresholdPrimaryResult(payload, scored) ==
    LET IsHigh(i) == scored[i].is_high
        high == SelectSeq(Indices(payload), IsHigh)
        high_conf_scores == [k \in 1..Len(high) |-> payload[high[k]].suspicion_score]
        threshold == Max(550000, Percentile(high_conf_scores, 75))
        Flag(i) == scored[i].is_high /\ 100 * payload[i].suspicion_score >= threshold
        suspicious == SelectSeq(Indices(payload), Flag)
    IN [dynamic_threshold |-> threshold,
        suspicious_accounts |-> suspicious,
        nodes_payload |-> WithFlags(payload, Range(suspicious))]

\* lines 494-517: no account is high-confidence
ThresholdFallbackResult(payload, scored) ==
    LET Candidate(i) == scored[i].pattern_count >= 1 /\ scored[i].total_tx >= 3
        cands == SelectSeq(Indices(payload), Candidate)
        fallback_scores == [k \in 1..Len(cands) |-> payload[cands[k]].suspicion_score]
        threshold == IF fallback_scores # <<>>
                     THEN Max(580000, Percentile(fallback_scores, 90))
                     ELSE 1000000
        Flag(i) == Candidate(i) /\ 100 * payload[i].suspicion_score >= threshold
        suspicious == SelectSeq(Indices(payload), Flag)
    IN [dynamic_threshold |-> threshold,
        suspicious_accounts |-> suspicious,
        nodes_payload |-> WithFlags(payload, Range(suspicious))]

\* the cap with the product rounded up instead of truncated
MaxAllowedRoundedUp(payload) == Max(1, (Len(payload) * 20 + 99) \div 100)

\* max(1, int(len(nodes_payload) * 0.2))
MaxAllowed(payload) == Max(1, (Len(payload) * 20) \div 100)

\* lines 521-530
PrecisionCapResult(payload, suspicious) ==
    LET kept == Take(SortedByScore(suspicious, payload), MaxAllowed(payload))
    IN [suspicious_accounts |-> kept,
        nodes_payload |-> WithFlags(payload, Range(kept))]

\* min(10, len(ring_linked)) at line 543
SafetyNetLimit == 10

\* the safety net without the cut of line 543
SafetyNetResultUncut(payload) ==
    LET Linked(i) == payload[i].ring_id # None /\ payload[i].suspicion_score >= 4500
        linked == SelectSeq(Indices(payload), Linked)
        ring_linked == SortedByScore(linked, payload)
    IN [suspicious_accounts |-> ring_linked,
        nodes_payload |-> WithFlags(payload, Range(ring_linked))]

\* lines 534-547
SafetyNetResult(payload) ==
    LET Linked(i) == payload[i].ring_id # None /\ payload[i].suspicion_score >= 4500
        linked == SelectSeq(Indices(payload), Linked)
        ring_linked == Take(SortedByScore(linked, payload),
                            Max(1, Min(SafetyNetLimit, Len(linked))))
    IN [suspicious_accounts |-> ring_linked,
        nodes_payload |-> WithFlags(payload, Range(ring_linked))]

\* lines 549-602
Report(payload, suspicious, rings, threshold, d, Gr) ==
    LET nodes_payload_sorted == SortedByScore(Indices(payload), payload)
        suspicious_accounts_sorted == SortedByScore(suspicious, payload)
    IN [nodes |-> [k \in 1..Len(nodes_payload_sorted) |-> payload[nodes_payload_sorted[k]]],
        suspicious_accounts |->
            [k \in 1..Len(suspicious_accounts_sorted) |->
                payload[suspicious_accounts_sorted[k]]],
        fraud_rings |-> rings,
        summary_stats |->
            [total_transactions |-> SumFn(d),
             total_accounts |-> Len(Gr.nodes),
             suspicious_accounts |-> Len(suspicious_accounts_sorted),
             fraud_rings |-> Len(rings),
             suspicion_threshold |-> threshold]]

(***************************************************************************)
(* The inputs                                                              *)
(***************************************************************************)
\* a directed ring over the accounts base+1 .. base+n, in either direction
Ring(base, n, forward) ==
    {IF forward THEN <<base + i, base + (i % n) + 1>>
                ELSE <<base + (i % n) + 1, base + i>> : i \in 1..n}

CycleLens == MinCycleLen..MaxCycleLen

\* one ring of 3 to 5 accounts, or two disjoint rings of 3
RingPairs ==
    {p \in CycleLens \X CycleLens : p[1] + p[2] <= MinCycleLen + MinCycleLen}

Skeletons ==
    {[n |-> a, edges |-> Ring(0, a, d)] : a \in CycleLens, d \in BOOLEAN}
    \cup {[n |-> p[1] + p[2], edges |-> Ring(0, p[1], d) \cup Ring(p[1], p[2], d)] :
              p \in RingPairs, d \in BOOLEAN}

\* the edge sets that differ from a skeleton in at most MaxEdits edges
\* (an edge added, self-loops included, or an edge taken out)
EdgeSets ==
    UNION {{(S.edges \ X) \cup (X \ S.edges) :
                X \in SubsetsUpTo((1..S.n) \X (1..S.n), MaxEdits)} :
            S \in Skeletons} \ {{}}

CycleMults == {1}

\* one group of m identical rows per edge
DfOf(E, m) == [row \in {Row(e[1], e[2], 1, 0) : e \in E} |-> m]

\* the calls of the detector that are made
CycleCalls ==
    [max_runtime_seconds : {0, 6}, max_rings : {1, DefaultMaxRings}]

\* every order in which the sets successors[node] can be iterated
RECURSIVE OrdersOver(_, _)
OrdersOver(Gr, S) ==
    IF S = {} THEN {<<>>}
    ELSE LET n == CHOOSE x \in S : TRUE
             others == OrdersOver(Gr, S \ {n})
         IN {[k \in DOMAIN o \cup {n} |-> IF k = n THEN p ELSE o[k]] :
                 o \in others, p \in Perms(Successors(Gr, n))}

SuccOrders(Gr) == OrdersOver(Gr, NodeSet(Gr))

Reverse(s) == [i \in 1..Len(s) |-> s[Len(s) + 1 - i]]

\* two of the iteration orders: every set ascending, every set descending
MonotoneOrders(Gr) ==
    {[n \in NodeSet(Gr) |-> SortSet(Successors(Gr, n))],
     [n \in NodeSet(Gr) |-> Reverse(SortSet(Successors(Gr, n)))]}

\* (rows per edge, amount of a row): a single transfer, a busy edge, an edge
\* of a high-volume account, a busy edge of large transfers
Weights == {<<1, 1>>, <<16, 1>>, <<201, 1>>, <<16, 60000>>}

\* the rows of a skeleton whose edges carry weight w, those of X weight w2
WeightedDf(E, w, X, w2) ==
    [row \in {Row(e[1], e[2], IF e \in X THEN w2[2] ELSE w[2], 0) : e \in E} |->
        IF <<row.sender_id, row.receiver_id>> \in X THEN w2[1] ELSE w[1]]

\* every skeleton under one weight, and a ring of three with one edge of
\* another weight
WeightedInputs ==
    {WeightedDf(S.edges, w, {}, w) : S \in Skeletons, w \in Weights}
    \cup {WeightedDf(Ring(0, MinCycleLen, d), w, {e} \cap Ring(0, MinCycleLen, d), w2) :
             w \in Weights, w2 \in Weights, d \in BOOLEAN,
             e \in Ring(0, MinCycleLen, TRUE) \cup Ring(0, MinCycleLen, FALSE)}

\* the forward ring of four with up to MaxChords further edges among its
\* accounts (self-loops included), one transfer per edge
ChordInputs ==
    {DfOf(Ring(0, MinCycleLen + 1, TRUE) \cup X, 1) :
        X \in SubsetsUpTo((1..(MinCycleLen + 1)) \X (1..(MinCycleLen + 1)), MaxChords)}

\* the accounts around a smurfing hub, which is account 1
Leaves ==
    (MaxCycleLen + MaxCycleLen + 1)..(MaxCycleLen + MaxCycleLen + MinCounterparties)

\* one transfer an hour between the hub and each leaf
FanRows(kind) ==
    {Row(IF kind = "in" THEN l ELSE 1, IF kind = "in" THEN 1 ELSE l, 1,
         3600 * (l - MaxCycleLen - MaxCycleLen - 1)) : l \in Leaves}

FanKinds == {{"in"}, {"out"}, {"in", "out"}}

FanInputs ==
    {[row \in (DOMAIN base) \cup UNION {FanRows(k) : k \in kinds} |->
         IF row \in DOMAIN base THEN base[row] ELSE 1] :
        kinds \in FanKinds,
        base \in {<<>>} \cup {WeightedDf(Ring(0, MinCycleLen, TRUE), w, {}, w) :
                                 w \in Weights}}

\* four disjoint rings of three over accounts of two digits, one transfer per
\* edge: more ring members than the safety net keeps
TriangleInputs ==
    {DfOf(UNION {Ring(SafetyNetLimit + MinCycleLen * j, MinCycleLen, TRUE) :
                    j \in 0..MinCycleLen}, 1)}

\* a ring of four alone in the input, the edge from account 1 of another weight
MixedFourRings ==
    {WeightedDf(Ring(0, MinCycleLen + 1, TRUE), w, {<<1, 2>>}, w2) :
        w \in Weights, w2 \in Weights}

ReportInputs ==
    ChordInputs \cup WeightedInputs \cup FanInputs \cup TriangleInputs \cup MixedFourRings

\* the rows of a direct call of _detect_smurfing_fan_in: eight senders to one
\* receiver within a second, and up to MaxExtraRows further rows that arrive at
\* once, exactly 72 h later or a second after that
FanReceivers == {MinCounterparties + 2, MinCounterparties + 3}

BaseRows ==
    {Row(s, MinCounterparties + 2, 1, IF s + s <= MinCounterparties - 2 THEN 0 ELSE 1) :
        s \in 1..(MinCounterparties - 2)}

ExtraRows ==
    {Row(s, r, 1, t) :
        s \in (MinCounterparties - 2)..(MinCounterparties + 1),
        r \in FanReceivers,
        t \in {0, Window(WindowHours), Window(WindowHours) + 1}}

FanInDfs ==
    {[row \in BaseRows \cup X |-> 1] : X \in SubsetsUpTo(ExtraRows, MaxExtraRows)}

\* df with one more row from s to r
AddRow(d, row) ==
    [x \in DOMAIN d \cup {row} |->
        IF x = row THEN (IF row \in DOMAIN d THEN d[row] + 1 ELSE 1) ELSE d[x]]

\* the inputs of at most k rows drawn from S, repeats included
RECURSIVE RowsUpTo(_, _)
RowsUpTo(S, k) ==
    IF k = 0 THEN {<<>>}
    ELSE LET P == RowsUpTo(S, k - 1)
         IN P \cup {AddRow(d, row) : d \in P, row \in S}

\* the inputs of a direct call of _detect_layered_shell: up to MaxShellRows
\* transfers among four accounts, self-transfers and repeated transfers
\* between the same two accounts included
ShellRows ==
    {Row(s, r, 1, 0) : s \in 1..(MinCycleLen + 1), r \in 1..(MinCycleLen + 1)}

ShellDfs == RowsUpTo(ShellRows, MaxShellRows) \ {<<>>}

(***************************************************************************)
(* The state machine                                                       *)
(***************************************************************************)
CycState ==
    [fraud_rings |-> fraud_rings,
     node_to_ring |-> node_to_ring,
     ring_counter |-> ring_counter,
     seen_rings |-> seen_rings,
     start_idx |-> start_idx,
     stack |-> stack,
     stopped_by |-> stopped_by,
     pc |-> pc]

Inputs == <<entry, df, max_runtime_seconds, max_rings, succOrder, G>>

Deadlines == <<deadline, cycle_deadline>>

Detections == <<fan_in_accounts, fan_out_accounts, shell_accounts>>

Flagging == <<nodes_payload, scored_accounts, suspicious_accounts, dynamic_threshold>>

CycVars ==
    <<fraud_rings, node_to_ring, ring_counter, seen_rings, start_idx, stack, stopped_by>>

\* where a return of _detect_cycles_3_to_5 leads
AfterCycles(p) ==
    IF p = "cycles_return"
    THEN (IF entry = "analyze_transactions" THEN "fan_in" ELSE "done")
    ELSE p

\* where the return of another detector leads
AfterDetector(next) == IF entry = "analyze_transactions" THEN next ELSE "done"

\* the locals of the detector go away when it returns
DoCycleStep(up) ==
    LET n == CycleStep(CycState, G, succOrder, max_rings, up)
        returns == n.pc = "cycles_return"
    IN /\ fraud_rings' = n.fraud_rings
       /\ node_to_ring' = n.node_to_ring
       /\ ring_counter' = n.ring_counter
       /\ seen_rings' = n.seen_rings
       /\ start_idx' = IF returns THEN 0 ELSE n.start_idx
       /\ stack' = IF returns THEN <<>> ELSE n.stack
       /\ stopped_by' = n.stopped_by
       /\ pc' = AfterCycles(n.pc)
       /\ UNCHANGED <<Inputs, Deadlines, Detections, Flagging, taken, report>>

\* what time.perf_counter() >= deadline can answer: once reached, a deadline
\* stays reached
Observe(dl, up) ==
    /\ up => dl # None
    /\ dl \in expired => up
    /\ expired' = IF up THEN expired \cup {dl} ELSE expired

\* lines 356-382: the deadline, the graph, the cycle detector's sub-budget
\* cycle_budget = max(2.0, min(6.0, max_runtime_seconds * 0.6)), in tenths
CycleBudget(mrs) == Max(20, Min(60, 6 * mrs))

AnalyzeStart ==
    /\ pc = "analyze"
    /\ deadline' = IF max_runtime_seconds # 0 /\ max_runtime_seconds > 0
                   THEN "outer" ELSE None
    /\ cycle_deadline' = IF CycleBudget(max_runtime_seconds) > 0 THEN "cycle" ELSE None
    /\ pc' = "cycles_for"
    /\ UNCHANGED <<Inputs, expired, CycVars, Detections, Flagging, taken, report>>

\* line 158: the for loop has no start node left
CyclesExhausted ==
    /\ pc = "cycles_for" /\ start_idx > Len(G.nodes)
    /\ DoCycleStep(FALSE)
    /\ UNCHANGED expired

\* lines 159-160
CyclesBreak ==
    /\ pc = "cycles_for" /\ start_idx <= Len(G.nodes)
    /\ \E up \in BOOLEAN :
          /\ Observe(cycle_deadline, up)
          /\ up \/ Len(fraud_rings) >= max_rings
          /\ DoCycleStep(up)

\* lines 162-163
CyclesStart ==
    /\ pc = "cycles_for" /\ start_idx <= Len(G.nodes)
    /\ Observe(cycle_deadline, FALSE)
    /\ Len(fraud_rings) < max_rings
    /\ DoCycleStep(FALSE)

\* line 165: the stack is empty, next start node
CyclesStackEmpty ==
    /\ pc = "cycles_while" /\ stack = <<>>
    /\ DoCycleStep(FALSE)
    /\ UNCHANGED expired

\* lines 166-167
CyclesReturnEarly ==
    /\ pc = "cycles_while" /\ stack # <<>>
    /\ \E up \in BOOLEAN :
          /\ Observe(cycle_deadline, up)
          /\ up \/ Len(fraud_rings) >= max_rings
          /\ DoCycleStep(up)

\* lines 169-185
CyclesVisit ==
    /\ pc = "cycles_while" /\ stack # <<>>
    /\ Observe(cycle_deadline, FALSE)
    /\ Len(fraud_rings) < max_rings
    /\ DoCycleStep(FALSE)

\* line 384: the deadline has passed before fan-in detection
FanInSkipped ==
    /\ pc = "fan_in" /\ entry = "analyze_transactions"
    /\ Observe(deadline, TRUE)
    /\ fan_in_accounts' = {}
    /\ pc' = "fan_out"
    /\ UNCHANGED <<Inputs, Deadlines, CycVars, fan_out_accounts, shell_accounts,
                   Flagging, taken, report>>

\* _detect_smurfing_fan_in runs over every receiver
FanInCompleted ==
    /\ pc = "fan_in"
    /\ Observe(deadline, FALSE)
    /\ fan_in_accounts' =
           detect_smurfing_fan_in(df, WindowHours, MinCounterparties,
                                  Cardinality(Receivers(df)))
    /\ pc' = AfterDetector("fan_out")
    /\ UNCHANGED <<Inputs, Deadlines, CycVars, fan_out_accounts, shell_accounts,
                   Flagging, taken, report>>

\* lines 204-205: the deadline passes before the group of some receiver
FanInStopped ==
    /\ pc = "fan_in"
    /\ deadline \notin expired
    /\ Observe(deadline, TRUE)
    /\ \E groups \in 0..(Cardinality(Receivers(df)) - 1) :
          fan_in_accounts' =
              detect_smurfing_fan_in(df, WindowHours, MinCounterparties, groups)
    /\ pc' = AfterDetector("fan_out")
    /\ UNCHANGED <<Inputs, Deadlines, CycVars, fan_out_accounts, shell_accounts,
                   Flagging, taken, report>>

\* line 387
FanOutSkipped ==
    /\ pc = "fan_out"
    /\ Observe(deadline, TRUE)
    /\ fan_out_accounts' = {}
    /\ pc' = "shell"
    /\ UNCHANGED <<Inputs, Deadlines, CycVars, fan_in_accounts, shell_accounts,
                   Flagging, taken, report>>

FanOutCompleted ==
    /\ pc = "fan_out"
    /\ Observe(deadline, FALSE)
    /\ fan_out_accounts' =
           detect_smurfing_fan_out(df, WindowHours, MinCounterparties,
                                   Cardinality(Senders(df)))
    /\ pc' = "shell"
    /\ UNCHANGED <<Inputs, Deadlines, CycVars, fan_in_accounts, shell_accounts,
                   Flagging, taken, report>>

\* lines 240-241
FanOutStopped ==
    /\ pc = "fan_out"
    /\ deadline \notin expired
    /\ Observe(deadline, TRUE)
    /\ \E groups \in 0..(Cardinality(Senders(df)) - 1) :
          fan_out_accounts' =
              detect_smurfing_fan_out(df, WindowHours, MinCounterparties, groups)
    /\ pc' = "shell"
    /\ UNCHANGED <<Inputs, Deadlines, CycVars, fan_in_accounts, shell_accounts,
                   Flagging, taken, report>>

\* line 390
ShellSkipped ==
    /\ pc = "shell"
    /\ Observe(deadline, TRUE)
    /\ shell_accounts' = {}
    /\ pc' = "score"
    /\ UNCHANGED <<Inputs, Deadlines, CycVars, fan_in_accounts, fan_out_accounts,
                   Flagging, taken, report>>

ShellCompleted ==
    /\ pc = "shell"
    /\ Observe(deadline, FALSE)
    /\ shell_accounts' = detect_layered_shell(G, df, Len(G.nodes))
    /\ pc' = AfterDetector("score")
    /\ UNCHANGED <<Inputs, Deadlines, CycVars, fan_in_accounts, fan_out_accounts,
                   Flagging, taken, report>>

\* lines 280-281
ShellStopped ==
    /\ pc = "shell"
    /\ deadline \notin expired
    /\ Observe(deadline, TRUE)
    /\ \E count \in 0..(Len(G.nodes) - 1) :
          shell_accounts' = detect_layered_shell(G, df, count)
    /\ pc' = AfterDetector("score")
    /\ UNCHANGED <<Inputs, Deadlines, CycVars, fan_in_accounts, fan_out_accounts,
                   Flagging, taken, report>>

\* lines 392-474: the loop over G.nodes()
\* line 474: the tuples appended to scored_accounts, the payload held by position
ScoredAccounts(scored) ==
    [i \in 1..Len(scored) |->
        [item |-> i,
         is_high |-> scored[i].is_high,
         pattern_count |-> scored[i].pattern_count,
         total_tx |-> scored[i].total_tx]]

\* line 473
NodesPayload(scored) == [i \in 1..Len(scored) |-> scored[i].node_payload]

\* lines 399-474 over G.nodes()
ScoreAll(Gr, d, rings, n2r, fan_in, fan_out, shell) ==
    [i \in 1..Len(Gr.nodes) |->
        ScoreNode(Gr.nodes[i], Gr, d, rings, n2r, fan_in, fan_out, shell)]

ScoreNodes ==
    /\ pc = "score"
    /\ \E scored \in {ScoreAll(G, df, fraud_rings, node_to_ring,
                                fan_in_accounts, fan_out_accounts, shell_accounts)} :
          /\ nodes_payload' = NodesPayload(scored)
          /\ scored_accounts' = ScoredAccounts(scored)
    /\ pc' = "threshold"
    /\ UNCHANGED <<Inputs, Deadlines, expired, CycVars, Detections,
                   suspicious_accounts, dynamic_threshold, taken, report>>

HighConfidenceExists == \E i \in 1..Len(scored_accounts) : scored_accounts[i].is_high

\* lines 478-493
ThresholdPrimary ==
    /\ pc = "threshold"
    /\ HighConfidenceExists
    /\ LET r == ThresholdPrimaryResult(nodes_payload, scored_accounts)
       IN /\ dynamic_threshold' = r.dynamic_threshold
          /\ suspicious_accounts' = r.suspicious_accounts
          /\ nodes_payload' = r.nodes_payload
    /\ taken' = taken \cup {"primary"}
    /\ pc' = "cap"
    /\ UNCHANGED <<Inputs, Deadlines, expired, CycVars, Detections,
                   scored_accounts, report>>

\* lines 494-517
ThresholdFallback ==
    /\ pc = "threshold"
    /\ ~HighConfidenceExists
    /\ LET r == ThresholdFallbackResult(nodes_payload, scored_accounts)
       IN /\ dynamic_threshold' = r.dynamic_threshold
          /\ suspicious_accounts' = r.suspicious_accounts
          /\ nodes_payload' = r.nodes_payload
    /\ taken' = taken \cup {"fallback"}
    /\ pc' = "cap"
    /\ UNCHANGED <<Inputs, Deadlines, expired, CycVars, Detections,
                   scored_accounts, report>>

\* lines 521-530
PrecisionCap ==
    /\ pc = "cap"
    /\ Len(suspicious_accounts) > MaxAllowed(nodes_payload)
    /\ LET r == PrecisionCapResult(nodes_payload, suspicious_accounts)
       IN /\ suspicious_accounts' = r.suspicious_accounts
          /\ nodes_payload' = r.nodes_payload
    /\ taken' = taken \cup {"cap"}
    /\ pc' = "safety_net"
    /\ UNCHANGED <<Inputs, Deadlines, expired, CycVars, Detections,
                   scored_accounts, dynamic_threshold, report>>

\* line 522 is false
PrecisionCapNotNeeded ==
    /\ pc = "cap"
    /\ ~(Len(suspicious_accounts) > MaxAllowed(nodes_payload))
    /\ pc' = "safety_net"
    /\ UNCHANGED <<Inputs, Deadlines, expired, CycVars, Detections, Flagging,
                   taken, report>>

\* lines 534-547
SafetyNet ==
    /\ pc = "safety_net"
    /\ suspicious_accounts = <<>> /\ fraud_rings # <<>>
    /\ LET r == SafetyNetResult(nodes_payload)
       IN /\ suspicious_accounts' = r.suspicious_accounts
          /\ nodes_payload' = r.nodes_payload
    /\ taken' = taken \cup {"safety_net"}
    /\ pc' = "assemble"
    /\ UNCHANGED <<Inputs, Deadlines, expired, CycVars, Detections,
                   scored_accounts, dynamic_threshold, report>>

\* line 534 is false
SafetyNetNotNeeded ==
    /\ pc = "safety_net"
    /\ ~(suspicious_accounts = <<>> /\ fraud_rings # <<>>)
    /\ pc' = "assemble"
    /\ UNCHANGED <<Inputs, Deadlines, expired, CycVars, Detections, Flagging,
                   taken, report>>

\* lines 549-602
Assemble ==
    /\ pc = "assemble"
    /\ report' = Report(nodes_payload, suspicious_accounts, fraud_rings,
                        dynamic_threshold, df, G)
    /\ pc' = "done"
    /\ UNCHANGED <<Inputs, Deadlines, expired, CycVars, Detections, Flagging, taken>>

\* the state before the first statement of the entry function
Fresh ==
    /\ G = build_graph(df)
    /\ expired = {}
    /\ fraud_rings = CycleInit.fraud_rings
    /\ node_to_ring = CycleInit.node_to_ring
    /\ ring_counter = CycleInit.ring_counter
    /\ seen_rings = CycleInit.seen_rings
    /\ start_idx = CycleInit.start_idx
    /\ stack = CycleInit.stack
    /\ stopped_by = CycleInit.stopped_by
    /\ fan_in_accounts = {}
    /\ fan_out_accounts = {}
    /\ shell_accounts = {}
    /\ nodes_payload = <<>>
    /\ scored_accounts = <<>>
    /\ suspicious_accounts = <<>>
    /\ dynamic_threshold = 1000000
    /\ taken = {}
    /\ report = None

\* a direct call _detect_cycles_3_to_5(G, max_runtime_seconds, max_rings)
InitCycles ==
    /\ entry = "detect_cycles_3_to_5"
    /\ \E E \in EdgeSets, m \in CycleMults : df = DfOf(E, m)
    /\ \E c \in CycleCalls :
          /\ max_runtime_seconds = c.max_runtime_seconds
          /\ max_rings = c.max_rings
    /\ Fresh
    /\ succOrder \in SuccOrders(G)
    /\ deadline = None
    /\ cycle_deadline = IF max_runtime_seconds > 0 THEN "cycle" ELSE None
    /\ pc = CycleInit.pc

NextCycles ==
    \/ CyclesExhausted
    \/ CyclesBreak
    \/ CyclesStart
    \/ CyclesStackEmpty
    \/ CyclesReturnEarly
    \/ CyclesVisit

SpecCycles == InitCycles /\ [][NextCycles]_vars

\* a call analyze_transactions(df, max_runtime_seconds)
InitReport ==
    /\ entry = "analyze_transactions"
    /\ df \in ReportInputs
    /\ max_runtime_seconds \in {0, 10}
    /\ max_rings = DefaultMaxRings
    /\ Fresh
    /\ succOrder \in MonotoneOrders(G)
    /\ deadline = None
    /\ cycle_deadline = None
    /\ pc = "analyze"

NextReport ==
    \/ AnalyzeStart
    \/ CyclesExhausted
    \/ CyclesBreak
    \/ CyclesStart
    \/ CyclesStackEmpty
    \/ CyclesReturnEarly
    \/ CyclesVisit
    \/ FanInSkipped
    \/ FanInCompleted
    \/ FanInStopped
    \/ FanOutSkipped
    \/ FanOutCompleted
    \/ FanOutStopped
    \/ ShellSkipped
    \/ ShellCompleted
    \/ ShellStopped
    \/ ScoreNodes
    \/ ThresholdPrimary
    \/ ThresholdFallback
    \/ PrecisionCap
    \/ PrecisionCapNotNeeded
    \/ SafetyNet
    \/ SafetyNetNotNeeded
    \/ Assemble

SpecReport == InitReport /\ [][NextReport]_vars

\* a direct call _detect_smurfing_fan_in(df, deadline=...)
InitFanIn ==
    /\ entry = "detect_smurfing_fan_in"
    /\ df \in FanInDfs
    /\ max_runtime_seconds = 0
    /\ max_rings = DefaultMaxRings
    /\ Fresh
    /\ succOrder = [n \in NodeSet(G) |-> SortSet(Successors(G, n))]
    /\ deadline \in {None, "outer"}
    /\ cycle_deadline = None
    /\ pc = "fan_in"

NextFanIn ==
    \/ FanInCompleted
    \/ FanInStopped

SpecFanIn == InitFanIn /\ [][NextFanIn]_vars

\* a direct call _detect_layered_shell(G, df, deadline=...) on the graph of df
InitShell ==
    /\ entry = "detect_layered_shell"
    /\ df \in ShellDfs
    /\ max_runtime_seconds = 0
    /\ max_rings = DefaultMaxRings
    /\ Fresh
    /\ succOrder = [n \in NodeSet(G) |-> SortSet(Successors(G, n))]
    /\ deadline \in {None, "outer"}
    /\ cycle_deadline = None
    /\ pc = "shell"

NextShell ==
    \/ ShellCompleted
    \/ ShellStopped

SpecShell == InitShell /\ [][NextShell]_vars

(***************************************************************************)
(* Properties of the cycle detector                                        *)
(***************************************************************************)
Members(ring) == Range(ring.member_accounts)

\* node_to_ring.get(node), the ring_id of a node's payload (line 466)
RingIdOf(n2r, node) == IF node \in DOMAIN n2r THEN n2r[node] ELSE None

RingsDisjoint ==
    \A i, j \in 1..Len(fraud_rings) :
        i # j => Members(fraud_rings[i]) \cap Members(fraud_rings[j]) = {}

MembersMapped ==
    \A i \in 1..Len(fraud_rings) :
        \A a \in Members(fraud_rings[i]) :
            a \in NodeSet(G) /\ RingIdOf(node_to_ring, a) = fraud_rings[i].ring_id

StrictlyAscending(s) == \A i \in 1..(Len(s) - 1) : s[i] < s[i + 1]

\* the accounts of S can be ordered into a directed cycle of Gr
IsDirectedCycle(Gr, S) ==
    LET first == CHOOSE x \in S : \A y \in S : x <= y
    IN \E p \in Perms(S \ {first}) :
          LET c == <<first>> \o p
              n == Len(c)
          IN \A i \in 1..n : <<c[i], c[(i % n) + 1]>> \in Gr.edges

\* C2: every ring emitted by _detect_cycles_3_to_5 has 3 to 5 members, its
\* member_accounts is a strictly ascending list of member_count accounts, and
\* those accounts form a simple directed cycle of the transaction graph.
C2_RingsWellFormed ==
    pc = "done" =>
        \A i \in 1..Len(fraud_rings) :
            LET ring == fraud_rings[i]
            IN /\ MinCycleLen <= ring.member_count
               /\ ring.member_count <= MaxCycleLen
               /\ Len(ring.member_accounts) = ring.member_count
               /\ StrictlyAscending(ring.member_accounts)
               /\ IsDirectedCycle(G, Members(ring))

\* a 5-ring whose cycle was walked in descending order was emitted
C2_Witness ==
    /\ pc = "done"
    /\ \E i \in 1..Len(fraud_rings) :
          /\ fraud_rings[i].member_count = MaxCycleLen
          /\ <<1, MaxCycleLen>> \in G.edges

\* C3: when no deadline expired, the ring list does not depend on the order
\* in which the successors of a node are visited: a second run on the same
\* graph, under any iteration order of the successor sets, returns the same
\* list (same ring ids, members, risk scores, order).
C3_Deterministic ==
    (pc = "done" /\ stopped_by # "deadline") =>
        \A o \in SuccOrders(G) :
            detect_cycles_3_to_5(G, o, max_rings).fraud_rings = fraud_rings

\* the list an uninterrupted run returns: no deadline, the cap out of reach,
\* the successor sets iterated as in this process
Uninterrupted == detect_cycles_3_to_5(G, succOrder, DefaultMaxRings).fraud_rings

IsPrefix(s, t) == Len(s) <= Len(t) /\ \A i \in 1..Len(s) : s[i] = t[i]

\* C10: a run stopped early (deadline at a loop test, or the ring cap)
\* returns a prefix of what the uninterrupted run returns; ring ids are
\* RING_001, RING_002, ... in list order, the list never exceeds the cap, and
\* the detector returns through one of its return statements.
C10_EarlyStopIsPrefix ==
    /\ Len(fraud_rings) <= max_rings
    /\ \A i \in 1..Len(fraud_rings) : fraud_rings[i].ring_id = RingId(i)
    /\ pc = "done" =>
          /\ IsPrefix(fraud_rings, Uninterrupted)
          /\ stopped_by \in {"exhausted", "deadline", "cap"}

\* a deadline stopped the run between the first and the second ring
C10_Witness ==
    /\ pc = "done"
    /\ stopped_by = "deadline"
    /\ Len(fraud_rings) = 1
    /\ Len(Uninterrupted) = 2

(***************************************************************************)
(* Properties of the report                                                *)
(***************************************************************************)
Returned == entry = "analyze_transactions" /\ pc = "done"

AccountsOf(items) == {items[i].account_id : i \in 1..Len(items)}

\* C1: in every state of the cycle detector and in every report the rings
\* are vertex-disjoint (no account is a member of two rings), and every
\* member of a ring is a node of the graph whose ring_id is that ring's id;
\* in the report, it appears in nodes with that ring_id.
C1_RingsDisjointAndMapped ==
    /\ RingsDisjoint
    /\ MembersMapped
    /\ Returned =>
          /\ \A i, j \in 1..Len(report.fraud_rings) :
                i # j => Members(report.fraud_rings[i])
                             \cap Members(report.fraud_rings[j]) = {}
          /\ \A i \in 1..Len(report.fraud_rings) :
                \A a \in Members(report.fraud_rings[i]) :
                    \E k \in 1..Len(report.nodes) :
                        /\ report.nodes[k].account_id = a
                        /\ report.nodes[k].ring_id = report.fraud_rings[i].ring_id

\* a report with a ring although the graph holds a second cycle that shares
\* accounts with it
C1_Witness ==
    /\ Returned
    /\ Len(report.fraud_rings) >= 1
    /\ \E S \in SUBSET NodeSet(G) :
          /\ Cardinality(S) >= MinCycleLen
          /\ Cardinality(S) <= MaxCycleLen
          /\ S # Members(report.fraud_rings[1])
          /\ S \cap Members(report.fraud_rings[1]) # {}
          /\ IsDirectedCycle(G, S)

\* is_suspicious is true on exactly the items the suspicious list refers to
FlagsMatch ==
    \A i \in 1..Len(nodes_payload) :
        nodes_payload[i].is_suspicious <=> i \in Range(suspicious_accounts)

\* C4: in the report every account of the graph appears in nodes exactly
\* once, every entry of suspicious_accounts is an entry of nodes, and a node
\* has is_suspicious = true iff its account is in suspicious_accounts; the
\* flags agree with the suspicious list after the primary or fallback
\* thresholding, after the precision cap and after the ring safety net.
C4_FlagsMatchMembership ==
    /\ pc \in {"cap", "safety_net", "assemble"} => FlagsMatch
    /\ Returned =>
          /\ Len(report.nodes) = Cardinality(NodeSet(G))
          /\ AccountsOf(report.nodes) = NodeSet(G)
          /\ Range(report.suspicious_accounts) \subseteq Range(report.nodes)
          /\ \A k \in 1..Len(report.nodes) :
                report.nodes[k].is_suspicious <=>
                    report.nodes[k].account_id \in AccountsOf(report.suspicious_accounts)

\* the precision cap cut the suspicious list: some thresholded account lost
\* its flag, another kept it
C4_Witness ==
    /\ Returned
    /\ "cap" \in taken
    /\ \E k \in 1..Len(report.nodes) : report.nodes[k].is_suspicious
    /\ \E k \in 1..Len(report.nodes) :
          /\ ~report.nodes[k].is_suspicious
          /\ report.nodes[k].suspicion_score >= 5500

\* C5: the report has at most max(1, floor(0.20 * total_accounts)) suspicious
\* accounts, unless the suspicious list is the output of the ring safety net.
C5_PrecisionCap ==
    Returned =>
        \/ "safety_net" \in taken
        \/ LET n == report.summary_stats.total_accounts
               fifth == n \div 5
           IN Len(report.suspicious_accounts) <= (IF fifth >= 1 THEN fifth ELSE 1)

\* six accounts were thresholded, the cap kept one
C5_Witness ==
    /\ Returned
    /\ "cap" \in taken
    /\ report.summary_stats.total_accounts = MinCycleLen + MinCycleLen
    /\ Len(report.suspicious_accounts) = 1

\* C7: an account the legitimacy filter marks as legitimate has an empty
\* patterns list in the report, also when it is a ring member or a smurfing
\* or shell hit, and is not suspicious unless the ring safety net fired.
C7_LegitimateSuppressed ==
    Returned =>
        \A k \in 1..Len(report.nodes) :
            is_likely_legitimate(report.nodes[k].account_id, G, df) =>
                /\ report.nodes[k].patterns = <<>>
                /\ "safety_net" \notin taken => ~report.nodes[k].is_suspicious

\* an account with more than 200 transactions that is a ring member and a
\* fan-in receiver
C7_Witness ==
    /\ Returned
    /\ \E k \in 1..Len(report.nodes) :
          LET a == report.nodes[k].account_id
          IN /\ TxCount(df, a) > 200
             /\ a \in DOMAIN node_to_ring
             /\ a \in fan_in_accounts
             /\ report.nodes[k].patterns = <<>>

\* C8: with max_runtime_seconds <= 0 no deadline exists, so none is ever
\* reached: no detector stops early, and the cycle detector returns only
\* because the start nodes are exhausted or the ring cap is reached.
C8_NonPositiveIsUnbounded ==
    (entry = "analyze_transactions" /\ max_runtime_seconds <= 0) =>
        /\ expired = {}
        /\ stopped_by \in {"none", "exhausted", "cap"}

\* position of an account in G.nodes()
NodeIndex(a) == CHOOSE i \in 1..Len(G.nodes) : G.nodes[i] = a

\* items is in descending score order, Earlier(a, b) deciding equal scores
RankedBy(items, Earlier(_, _)) ==
    \A i \in 1..(Len(items) - 1) :
        \/ items[i].suspicion_score > items[i + 1].suspicion_score
        \/ /\ items[i].suspicion_score = items[i + 1].suspicion_score
           /\ Earlier(items[i].account_id, items[i + 1].account_id)

\* the item was flagged by the thresholding that ran
Thresholded(i) ==
    /\ 100 * nodes_payload[i].suspicion_score >= dynamic_threshold
    /\ IF "primary" \in taken THEN scored_accounts[i].is_high
       ELSE scored_accounts[i].pattern_count >= 1 /\ scored_accounts[i].total_tx >= 3

\* where the cap ran, an account it kept precedes, by Earlier, every account
\* of the same score it dropped
CutBy(Earlier(_, _)) ==
    "cap" \in taken =>
        \A i, j \in 1..Len(nodes_payload) :
            (/\ nodes_payload[i].is_suspicious
             /\ ~nodes_payload[j].is_suspicious
             /\ Thresholded(j)
             /\ nodes_payload[i].suspicion_score = nodes_payload[j].suspicion_score)
            => Earlier(nodes_payload[i].account_id, nodes_payload[j].account_id)

ById(a, b) == a < b

ByGraphOrder(a, b) == NodeIndex(a) < NodeIndex(b)

\* C9 as claimed: nodes and suspicious_accounts are in descending score order
\* with equal scores in ascending account id, and the precision cap resolves
\* ties at the cut in favour of the smaller account id.
C9_TiesByAccountId ==
    Returned =>
        /\ RankedBy(report.nodes, ById)
        /\ RankedBy(report.suspicious_accounts, ById)
        /\ CutBy(ById)

\* C9 as amended: nodes and suspicious_accounts are in descending score
\* order with equal scores in the order of G.nodes() (the order in which the
\* accounts first occur as sender, then receiver, in the transactions grouped
\* and sorted by (sender_id, receiver_id)), and the precision cap resolves
\* ties at the cut in favour of the account that comes first in that order.
C9_TiesKeepGraphOrder ==
    Returned =>
        /\ RankedBy(report.nodes, ByGraphOrder)
        /\ RankedBy(report.suspicious_accounts, ByGraphOrder)
        /\ CutBy(ByGraphOrder)

\* the cap cut among accounts of equal score, and kept an account with a
\* larger id than one it dropped
C9_Witness ==
    /\ Returned
    /\ "cap" \in taken
    /\ \E i, j \in 1..Len(nodes_payload) :
          /\ nodes_payload[i].is_suspicious
          /\ ~nodes_payload[j].is_suspicious
          /\ Thresholded(j)
          /\ nodes_payload[i].suspicion_score = nodes_payload[j].suspicion_score
          /\ nodes_payload[i].account_id > nodes_payload[j].account_id

(***************************************************************************)
(* Properties of the fan-in detector                                       *)
(***************************************************************************)
RowsTo(d, receiver) == {row \in DOMAIN d : row.receiver_id = receiver}

SendersBetween(d, receiver, a, b) ==
    {row.sender_id : row \in {r \in RowsTo(d, receiver) :
                                 a.timestamp <= r.timestamp /\ r.timestamp <= b.timestamp}}

\* two transactions to the receiver at most 72 h apart with at least 10
\* distinct senders between them
Qualifies(d, receiver, a, b) ==
    /\ a.timestamp <= b.timestamp
    /\ b.timestamp - a.timestamp <= 72 * 3600
    /\ Cardinality(SendersBetween(d, receiver, a, b)) >= 10

\* C6: when no deadline expires, _detect_smurfing_fan_in flags a receiver iff
\* two of its transactions lie at most 72 hours apart (inclusive) and the
\* transactions to it between them come from at least 10 distinct senders.
C6_FanInWindow ==
    (entry = "detect_smurfing_fan_in" /\ pc = "done" /\ expired = {}) =>
        \A receiver \in Receivers(df) \cup fan_in_accounts :
            receiver \in fan_in_accounts <=>
                \E a, b \in RowsTo(df, receiver) : Qualifies(df, receiver, a, b)

\* a receiver is flagged, and only by windows of exactly 72 hours
C6_Witness ==
    /\ entry = "detect_smurfing_fan_in" /\ pc = "done" /\ expired = {}
    /\ \E receiver \in fan_in_accounts :
          \A a, b \in RowsTo(df, receiver) :
              Qualifies(df, receiver, a, b) =>
                  b.timestamp - a.timestamp = 72 * 3600

(***************************************************************************)
(* Properties of the ring safety net                                       *)
(***************************************************************************)
\* the accounts the safety net selects from: a ring_id and a score of 45 or more
RingLinked ==
    {report.nodes[k].account_id : k \in {i \in 1..Len(report.nodes) :
        /\ report.nodes[i].ring_id # None
        /\ report.nodes[i].suspicion_score >= 4500}}

\* the input is one ring of four and nothing else
OnlyRingOfFour ==
    /\ Cardinality(NodeSet(G)) = MinCycleLen + 1
    /\ Cardinality(G.edges) = MinCycleLen + 1
    /\ IsDirectedCycle(G, NodeSet(G))

\* every suspicious account of the report has a ring_id and a score of 45 or more
NetMembersLinked ==
    \A k \in 1..Len(report.suspicious_accounts) :
        /\ report.suspicious_accounts[k].ring_id # None
        /\ report.suspicious_accounts[k].suspicion_score >= 4500

\* C11 as claimed: when the safety net ran (the suspicious set was empty
\* after thresholding and the cap, and a ring exists), the final suspicious
\* set has between 1 and 10 accounts, each with a ring_id and a score of 45 or
\* more; for an input that is one ring of four they are its four members.
C11_SafetyNetNonEmpty ==
    (Returned /\ "safety_net" \in taken) =>
        /\ Len(report.suspicious_accounts) >= 1
        /\ Len(report.suspicious_accounts) <= SafetyNetLimit
        /\ NetMembersLinked
        /\ OnlyRingOfFour => AccountsOf(report.suspicious_accounts) = NodeSet(G)

\* C11 as amended: when the safety net ran, the final suspicious set has at
\* most 10 accounts, each with a ring_id and a score of 45 or more, and at
\* least 1 whenever some account has a ring_id and a score of 45 or more; it
\* is empty when every ring member is marked legitimate. For an input that is
\* one ring of four they are the ring members not marked legitimate.
C11_SafetyNetBounded ==
    (Returned /\ "safety_net" \in taken) =>
        /\ Len(report.suspicious_accounts) = Min(SafetyNetLimit, Cardinality(RingLinked))
        /\ Len(report.suspicious_accounts) <= SafetyNetLimit
        /\ RingLinked # {} => Len(report.suspicious_accounts) >= 1
        /\ NetMembersLinked
        /\ (\A a \in DOMAIN node_to_ring : is_likely_legitimate(a, G, df))
               => report.suspicious_accounts = <<>>
        /\ OnlyRingOfFour =>
               AccountsOf(report.suspicious_accounts) =
                   {a \in NodeSet(G) : ~is_likely_legitimate(a, G, df)}

\* the safety net ran over twelve ring members and kept ten of them
C11_Witness ==
    /\ Returned
    /\ "safety_net" \in taken
    /\ Cardinality(RingLinked) > SafetyNetLimit
    /\ Len(report.suspicious_accounts) = SafetyNetLimit
(***************************************************************************)
(* Properties of the layered-shell detector                                *)
(***************************************************************************)
\* the accounts _detect_layered_shell returns for the input d when no
\* deadline stops it
ShellAccountsOf(d) ==
    detect_layered_shell(build_graph(d), d, Len(build_graph(d).nodes))

\* C12: the conditions of the shell detector are jointly satisfiable: some
\* valid input, transfers between the same two accounts repeated or not, has
\* an account with 2 or 3 transactions, in-degree >= 2 and out-degree >= 2
\* that _detect_layered_shell flags. Stated of the calls that have returned:
\* the input of this call or another input of the family is flagged.
C12_ShellSatisfiable ==
    (entry = "detect_layered_shell" /\ pc = "done") =>
        \/ shell_accounts # {}
        \/ \E d \in ShellDfs : ShellAccountsOf(d) # {}

\* no call flags an account: an account with in-degree >= 2 and
\* out-degree >= 2 is the receiver of two rows and the sender of two others
\* (a self-transfer counts on both sides), so it has 4 transactions or more
ShellNeverFlags ==
    /\ shell_accounts = {}
    /\ \A node \in NodeSet(G) :
          /\ TxCount(df, node) >= InDegree(G, node) + OutDegree(G, node)
          /\ ~IsShell(G, df, node)

\* an account with in-degree 2 and out-degree 2 on exactly 4 transactions
ShellNearMiss ==
    /\ entry = "detect_layered_shell" /\ pc = "done"
    /\ \E node \in NodeSet(G) :
          /\ InDegree(G, node) >= 2 /\ OutDegree(G, node) >= 2
          /\ TxCount(df, node) = 4
(***************************************************************************)
(* Maximality of the ring set                                              *)
(***************************************************************************)
\* the member sets of the simple directed cycles of 3 to 5 accounts of Gr
CyclesOf(Gr) ==
    {S \in SUBSET NodeSet(Gr) :
        /\ MinCycleLen <= Cardinality(S)
        /\ Cardinality(S) <= MaxCycleLen
        /\ IsDirectedCycle(Gr, S)}

\* C13: when the detector has run to completion (no deadline expired, the
\* ring cap was not reached), every simple directed cycle of 3 to 5 accounts
\* of the graph has a member that is assigned to a ring. Only the first-claim
\* test rejects a candidate: every edge carries at least one row, so the
\* support guard passes, and a member set already seen is a set of claimed
\* accounts, so the dedup rejects nothing the first claim lets through.
C13_RingsMaximal ==
    /\ \A e \in G.edges : G.count[e] >= 1
    /\ \A S \in seen_rings : S # {} /\ S \subseteq DOMAIN node_to_ring
    /\ (pc = "done" /\ stopped_by = "exhausted") =>
          \A S \in CyclesOf(G) : S \cap DOMAIN node_to_ring # {}

\* a completed run in which a cycle is not a ring of its own because one of
\* its accounts was claimed first, and another of its accounts is in no ring
C13_Witness ==
    /\ entry = "detect_cycles_3_to_5"
    /\ pc = "done" /\ stopped_by = "exhausted"
    /\ \E S \in CyclesOf(G) :
          /\ \A i \in 1..Len(fraud_rings) : Members(fraud_rings[i]) # S
          /\ S \cap DOMAIN node_to_ring # {}
          /\ S \ DOMAIN node_to_ring # {}
====
